---- MODULE Spec2Model ----
(***************************************************************************)
(* Model of examples/verbose_traceroute.py (icmplib): the ttl loop, the    *)
(* per-ttl attempt loop, the classification of each probe's outcome by the *)
(* except clauses, and what is written to standard output.                 *)
(*                                                                         *)
(* One run of verbose_traceroute is one behaviour.  The function is cut    *)
(* into steps at the points where it calls a collaborator (resolve, the    *)
(* socket constructor, send, receive); pc is the position of the run.      *)
(***************************************************************************)
EXTENDS Integers, Sequences, FiniteSets

\* ---- bounds of the model ------------------------------------------------
MaxCount == 2     \* count is drawn from 1..MaxCount
MaxHops  == 2     \* max_hops is drawn from 1..MaxHops

\* ---- program constants --------------------------------------------------
PID          == 7     \* id=PID, the default identifier
TimeoutTicks == 2     \* timeout=2, the wait of one receive
IntervalTicks == 1    \* interval=0.05, the sleep after a Time Exceeded
ReplyTicks == 1       \* the time a reply takes, less than the timeout

\* ---- values -------------------------------------------------------------
NoAddr == "none"
NoTime == -1

\* The destinations a caller may pass.
Addresses == {"ovh.com", "no.such.host", "2001:db8::1"}

\* is_hostname(address): true of anything that is not a literal IP address.
is_hostname(a) == a \in {"ovh.com", "no.such.host"}

\* is_ipv6_address(ip_address)
is_ipv6_address(a) == a = "2001:db8::1"

\* resolve(name): the list of addresses of the name; raises (here: the
\* empty list, whose [0] raises too) when the name cannot be resolved.
resolve(a) == IF a = "ovh.com" THEN <<"198.27.92.1">> ELSE <<>>

Gateway == "gateway"   \* the source of a message sent by a router

\* What sock.send(request) may do: return, raise an error of the library
\* (a subclass of ICMPLibError), or raise anything else.
SendOutcomes == {"sent", "ICMPLibError", "OtherException"}

\* What sock.receive(request, timeout) may do: return an echo reply of the
\* destination, return a Time Exceeded message of a gateway, return another
\* ICMP error message, or raise TimeoutExceeded.  (Another ICMPLibError
\* raised by receive itself takes the handler of line 115 with nothing
\* printed, as the one raised by send does.)
ReceiveOutcomes ==
    {"EchoReply", "TimeExceeded", "OtherICMPError", "TimeoutExceeded"}

VARIABLES
    pc,            \* position of the run
    address,       \* parameter address
    count,         \* parameter count
    max_hops,      \* parameter max_hops
    ip_address,    \* local ip_address
    sock,          \* the socket: "none", "v4" or "v6" once created, "closed"
    ttl,           \* local ttl
    host_reached,  \* local host_reached
    nextSeq,       \* the next value of the iterator range(count)
    sequence,      \* local sequence
    request,       \* local request (the ICMPRequest of the current attempt)
    now,           \* the clock read by send and receive
    out,           \* standard output: one record per print call
    probes,        \* the requests handed to sock.send, with their outcome
    sleeps,        \* the calls of sleep(interval): the ttl at each call and
                   \* the number of the attempt it was made in
    resolveCalls,  \* the number of calls of resolve
    err            \* the exception that left the function, "none" if none

vars == <<pc, address, count, max_hops, ip_address, sock, ttl, host_reached,
          nextSeq, sequence, request, now, out, probes, sleeps, resolveCalls,
          err>>

\* ICMPRequest(destination, id, sequence, ttl); time is set by send.
ICMPRequestNoSequence(d, i, s, t) ==
    [destination |-> d, id |-> i, sequence |-> 0, ttl |-> t, time |-> NoTime]

ICMPRequest(d, i, s, t) ==
    [destination |-> d, id |-> i, sequence |-> s, ttl |-> t, time |-> NoTime]

NoRequest == ICMPRequest(NoAddr, 0, 0, 0)

\* One print call.  k is the statement: "header" (line 49), "prefix" (line
\* 81, no newline), "rtt" (lines 90 and 104), "stars" (line 113),
\* "completed" (line 121).  reached tells the rtt of line 90, which is
\* printed together with host_reached = True, from the rtt of line 104.
\* probe is the number of the attempt (index in probes) that printed it.
Printed(k, t, src, rtt, reached, p) ==
    [k |-> k, ttl |-> t, source |-> src, rtt |-> rtt, reached |-> reached,
     probe |-> p]

\* round_trip_time = (reply.time - request.time) * 1000
round_trip_time_reversed(replyTime, requestTime) ==
    (requestTime - replyTime) * 1000

round_trip_time(replyTime, requestTime) == (replyTime - requestTime) * 1000

Init ==
    /\ pc = "resolve"
    /\ address \in Addresses
    /\ count \in 1..MaxCount
    /\ max_hops \in 1..MaxHops
    /\ ip_address = NoAddr
    /\ sock = "none"
    /\ ttl = 0
    /\ host_reached = FALSE
    /\ nextSeq = 0
    /\ sequence = 0
    /\ request = NoRequest
    /\ now = 0
    /\ out = <<>>
    /\ probes = <<>>
    /\ sleeps = <<>>
    /\ resolveCalls = 0
    /\ err = "none"

\* An exception leaves the function: nothing after the raising statement
\* runs (the function has no finally clause and no with statement).
Raise(e) ==
    /\ pc' = "raised"
    /\ err' = e

\* Line 43, resolve(address)[0]: with an address the run goes on to the
\* socket; without one the exception leaves the function at this line.
AfterLookupIgnored(found) == "socket"

AfterLookup(found) == IF found THEN "socket" ELSE "raised"

\* Lines 42-45: the DNS lookup, for a hostname only.
Resolve ==
    /\ pc = "resolve"
    /\ IF is_hostname(address)
         THEN LET found == Len(resolve(address)) > 0 IN
              /\ resolveCalls' = resolveCalls + 1
              /\ ip_address' = IF found THEN resolve(address)[1] ELSE ip_address
              /\ pc' = AfterLookup(found)
              /\ err' = IF pc' = "raised" THEN "NameLookupError" ELSE err
         ELSE /\ ip_address' = address
              /\ pc' = "socket"
              /\ UNCHANGED <<resolveCalls, err>>
    /\ UNCHANGED <<address, count, max_hops, sock, ttl, host_reached, nextSeq,
                   sequence, request, now, out, probes, sleeps>>

\* Lines 49-59: the header, the socket of the address family (its
\* constructor raises when the process may not open a raw socket), and the
\* initial values of ttl and host_reached.
OpenSocket ==
    /\ pc = "socket"
    /\ out' = Append(out, Printed("header", 0, ip_address, NoTime, FALSE, 0))
    /\ \E permitted \in BOOLEAN :
         IF permitted
           THEN /\ sock' = IF is_ipv6_address(ip_address) THEN "v6" ELSE "v4"
                /\ ttl' = 1
                /\ host_reached' = FALSE
                /\ pc' = "while"
                /\ err' = err
           ELSE /\ Raise("SocketPermissionError")
                /\ UNCHANGED <<sock, ttl, host_reached>>
    /\ UNCHANGED <<address, count, max_hops, ip_address, nextSeq, sequence,
                   request, now, probes, sleeps, resolveCalls>>

\* Line 61: not host_reached and ttl <= max_hops
WhileCondTtlOnly(hr, t, mh) == t <= mh

WhileCondOneMore(hr, t, mh) == ~hr /\ t <= mh + 1

WhileCond(hr, t, mh) == ~hr /\ t <= mh

\* Line 61: the test of the while loop; entering the body creates the
\* iterator of range(count).
WhileTest ==
    /\ pc = "while"
    /\ IF WhileCond(host_reached, ttl, max_hops)
         THEN /\ nextSeq' = 0
              /\ pc' = "for"
         ELSE /\ nextSeq' = nextSeq
              /\ pc' = "completed"
    /\ UNCHANGED <<address, count, max_hops, ip_address, sock, ttl,
                   host_reached, sequence, request, now, out, probes, sleeps,
                   resolveCalls, err>>

\* Lines 62-68: the next value of range(count) and the request of the
\* attempt; the exhausted iterator leaves the for loop.
ForNext ==
    /\ pc = "for"
    /\ IF nextSeq < count
         THEN /\ sequence' = nextSeq
              /\ nextSeq' = nextSeq + 1
              /\ request' = ICMPRequest(ip_address, PID, nextSeq, ttl)
              /\ pc' = "send"
         ELSE /\ pc' = "incr"
              /\ UNCHANGED <<sequence, nextSeq, request>>
    /\ UNCHANGED <<address, count, max_hops, ip_address, sock, ttl,
                   host_reached, now, out, probes, sleeps, resolveCalls, err>>

\* The entry of probes for the request handed to send, and its outcome;
\* replyTime is reply.time once receive has returned a reply.
Probe(req, outcome) ==
    [destination |-> req.destination, id |-> req.id, sequence |-> req.sequence,
     ttl |-> req.ttl, time |-> req.time, outcome |-> outcome,
     replyTime |-> NoTime]

SetOutcome(ps, outcome, t) ==
    [ps EXCEPT ![Len(ps)] = [@ EXCEPT !.outcome = outcome, !.replyTime = t]]

\* Lines 96, 109, 115: the except clauses of the try statement catch
\* TimeExceeded, TimeoutExceeded and every other ICMPLibError, and nothing
\* else.
CaughtByBareExcept(e) == TRUE

Caught(e) == e \in {"TimeExceeded", "TimeoutExceeded", "ICMPLibError"}

\* The outcome recorded for a request whose send raised: an error of the
\* library, or an exception that is none.
SendFailure(o) == IF o = "ICMPLibError" THEN "SendError" ELSE "SendCrash"

\* Lines 70-72 with the handler of lines 115-117: send stamps the request
\* and transmits it.  An ICMPLibError raised by send is caught and ignored,
\* the for loop goes on; any other exception leaves the function.
Send ==
    /\ pc = "send"
    /\ \E o \in SendOutcomes :
         IF o = "sent"
           THEN /\ request' = [request EXCEPT !.time = now]
                /\ probes' = Append(probes, Probe(request', "InFlight"))
                /\ now' = now
                /\ pc' = "receive"
                /\ err' = err
           ELSE /\ probes' = Append(probes, Probe(request, SendFailure(o)))
                /\ IF Caught(o)
                     THEN /\ pc' = "for"
                          /\ err' = err
                     ELSE Raise(o)
                /\ UNCHANGED <<request, now>>
    /\ UNCHANGED <<address, count, max_hops, ip_address, sock, ttl,
                   host_reached, nextSeq, sequence, out, sleeps, resolveCalls>>

\* reply.source of what receive returned: the destination answers an echo
\* request itself, a router sends the ICMP error messages.
ReplySource(o) == IF o = "EchoReply" THEN ip_address ELSE Gateway

\* Lines 93 and 59: host_reached becomes True on the echo reply of the
\* destination and is assigned nowhere else in the loop.
HostReachedNeverSet(o, hr) == hr

HostReachedOnAnyReply(o, hr) ==
    IF o \in {"EchoReply", "TimeExceeded"} THEN TRUE ELSE hr

HostReachedAfter(o, hr) == IF o = "EchoReply" THEN TRUE ELSE hr

\* Lines 94 and 107: break leaves the for loop after an echo reply and
\* after a Time Exceeded message, so the run goes on at line 119; after
\* every other outcome the for loop takes its next value.
AfterAttemptNoBreak(o) == IF o = "EchoReply" THEN "incr" ELSE "for"

AfterAttemptBreakOnTimeout(o) ==
    IF o \in {"EchoReply", "TimeExceeded", "TimeoutExceeded"}
      THEN "incr" ELSE "for"

AfterAttempt(o) == IF o \in {"EchoReply", "TimeExceeded"} THEN "incr" ELSE "for"

\* Line 112: if sequence >= count - 1
LastAttemptAlways(seq, cnt) == TRUE

LastAttemptOffByOne(seq, cnt) == seq >= cnt - 2

LastAttempt(seq, cnt) == seq >= cnt - 1

\* Lines 79-85: the ttl, the source and the name of a returned reply are
\* printed (no newline) before raise_for_status classifies the reply, so
\* for every reply, an ICMP error that is then ignored included.
PrintedAfterStatus(o, t, n) ==
    IF o = "OtherICMPError"
      THEN <<>>
      ELSE <<Printed("prefix", t, ReplySource(o), NoTime, FALSE, n)>>

PrintedBeforeStatus(o, t, n) ==
    <<Printed("prefix", t, ReplySource(o), NoTime, FALSE, n)>>

\* Line 106: sleep(interval) stands in the handler of TimeExceeded only.
SleepAfterAnyOutcome(o) == TRUE

SleepNever(o) == FALSE

SleepAfter(o) == o = "TimeExceeded"

\* One call of sleep(interval), made in attempt n of ttl t.
Slept(t, n) == [ttl |-> t, after |-> n]

\* Lines 75-117: receive and the classification of its result.
\*   - a reply object was returned: line 81 prints ttl, source and name
\*     without a newline, and then raise_for_status decides:
\*       echo reply      -> line 90 prints the rtt, host_reached = True, break
\*       Time Exceeded   -> handler of line 96: line 104 prints the rtt,
\*                          sleep(interval), break
\*       other ICMP error-> handler of line 115: ignored, next attempt
\*   - TimeoutExceeded  -> handler of line 109: the stars, for the last
\*                          value of sequence only; next attempt
\* break leaves the for loop, so the run goes on at line 119.
Receive ==
    /\ pc = "receive"
    /\ \E o \in ReceiveOutcomes :
         LET n         == Len(probes)
             replyTime == now + ReplyTicks
             rtt       == round_trip_time(replyTime, request.time)
         IN
         /\ CASE o = "EchoReply" ->
                   /\ out' = out \o PrintedBeforeStatus(o, ttl, n)
                                 \o <<Printed("rtt", ttl, ReplySource(o), rtt, TRUE, n)>>
                   /\ probes' = SetOutcome(probes, "Reply", replyTime)
              [] o = "TimeExceeded" ->
                   /\ out' = out \o PrintedBeforeStatus(o, ttl, n)
                                 \o <<Printed("rtt", ttl, ReplySource(o), rtt, FALSE, n)>>
                   /\ probes' = SetOutcome(probes, "HopReply", replyTime)
              [] o = "OtherICMPError" ->
                   /\ out' = out \o PrintedBeforeStatus(o, ttl, n)
                   /\ probes' = SetOutcome(probes, "Failure", replyTime)
              [] o = "TimeoutExceeded" ->
                   /\ out' = IF LastAttempt(sequence, count)
                               THEN Append(out, Printed("stars", ttl, NoAddr, NoTime, FALSE, n))
                               ELSE out
                   /\ probes' = SetOutcome(probes, "Timeout", NoTime)
         /\ sleeps' = IF SleepAfter(o) THEN Append(sleeps, Slept(ttl, n)) ELSE sleeps
         /\ now' = now + (IF o = "TimeoutExceeded" THEN TimeoutTicks ELSE ReplyTicks)
                       + (IF SleepAfter(o) THEN IntervalTicks ELSE 0)
         /\ host_reached' = HostReachedAfter(o, host_reached)
         /\ pc' = AfterAttempt(o)
    /\ UNCHANGED <<address, count, max_hops, ip_address, sock, ttl, nextSeq,
                   sequence, request, resolveCalls, err>>

\* Line 119: ttl += 1
TtlUnchanged(t) == t

TtlIncremented(t) == t + 1

\* Line 119: ttl += 1, back to the test of the while loop.
Incr ==
    /\ pc = "incr"
    /\ ttl' = TtlIncremented(ttl)
    /\ pc' = "while"
    /\ UNCHANGED <<address, count, max_hops, ip_address, sock, host_reached,
                   nextSeq, sequence, request, now, out, probes, sleeps,
                   resolveCalls, err>>

\* Line 121: the last line of the output; the function returns.  The socket
\* is not closed by the function.
Completed ==
    /\ pc = "completed"
    /\ out' = Append(out, Printed("completed", 0, NoAddr, NoTime, FALSE, 0))
    /\ pc' = "done"
    /\ UNCHANGED <<address, count, max_hops, ip_address, sock, ttl,
                   host_reached, nextSeq, sequence, request, now, probes,
                   sleeps, resolveCalls, err>>

\* The caller interrupts the run (KeyboardInterrupt) while it is in a call
\* of a collaborator, or about to make one: no except clause of the
\* function catches it, so it leaves the function where the run stands.
Cancel ==
    /\ pc \in {"resolve", "socket", "send", "receive"}
    /\ Raise("KeyboardInterrupt")
    /\ UNCHANGED <<address, count, max_hops, ip_address, sock, ttl,
                   host_reached, nextSeq, sequence, request, now, out, probes,
                   sleeps, resolveCalls>>

Next ==
    \/ Resolve
    \/ OpenSocket
    \/ WhileTest
    \/ ForNext
    \/ Send
    \/ Receive
    \/ Incr
    \/ Completed
    \/ Cancel

Spec == Init /\ [][Next]_vars

\* The runs that no caller interrupts: every step is a step of the
\* function itself, and an exception comes from a collaborator only.
NextUninterrupted ==
    \/ Resolve
    \/ OpenSocket
    \/ WhileTest
    \/ ForNext
    \/ Send
    \/ Receive
    \/ Incr
    \/ Completed

SpecUninterrupted == Init /\ [][NextUninterrupted]_vars

TypeOK ==
    /\ pc \in {"resolve", "socket", "while", "for", "send", "receive", "incr",
               "completed", "done", "raised"}
    /\ count \in 1..MaxCount
    /\ max_hops \in 1..MaxHops
    /\ sock \in {"none", "v4", "v6", "closed"}
    /\ ttl \in 0..(max_hops + 1)
    /\ host_reached \in BOOLEAN
    /\ sequence \in 0..(count - 1)
    /\ nextSeq \in 0..count

(***************************************************************************)
(* What the run has emitted and sent, read off out and probes.             *)
(***************************************************************************)

\* A hop result is a completed hop line: the rtt that completes a prefix,
\* or the stars.  A prefix alone is hop output, but no hop result.
IsHopResult(e) == e.k \in {"rtt", "stars"}
IsHopOutput(e) == e.k \in {"prefix", "rtt", "stars"}

HopResults == SelectSeq(out, IsHopResult)
HopOutput  == SelectSeq(out, IsHopOutput)

\* The attempts whose outcome is known.
Decided(i) == i \in 1..Len(probes) /\ probes[i].outcome # "InFlight"

AttemptsAt(t) == {i \in 1..Len(probes) : probes[i].ttl = t}

DestinationReplied ==
    \E i \in 1..Len(probes) :
        probes[i].outcome = "Reply" /\ probes[i].ttl <= max_hops

\* Every attempt ended in one of the four outcomes of a probe: no send
\* raised.
OnlyProbeOutcomes ==
    \A i \in 1..Len(probes) :
        probes[i].outcome \in {"Reply", "HopReply", "Timeout", "Failure"}

ReachedResults == {i \in 1..Len(HopResults) : HopResults[i].reached}

\* The attempt after attempt i, if there is one, is the next of the same
\* ttl, or the first of the next ttl after the last of a ttl.
NextAttemptFollows(i) ==
    i < Len(probes) =>
        IF probes[i].sequence < count - 1
          THEN /\ probes[i + 1].ttl = probes[i].ttl
               /\ probes[i + 1].sequence = probes[i].sequence + 1
          ELSE /\ probes[i + 1].ttl = probes[i].ttl + 1
               /\ probes[i + 1].sequence = 0

(***************************************************************************)
(* C1.  In a run that completes without error, the ttl values of the       *)
(* emitted hop results are 1, 2, 3, ... without gap or repeat, and the     *)
(* last one is the ttl at which the destination replied, or max_hops.      *)
(***************************************************************************)
C1_TtlsContiguous ==
    (pc = "done" /\ OnlyProbeOutcomes) =>
        /\ \A i \in 1..Len(HopResults) : HopResults[i].ttl = i
        /\ Len(HopResults) >= 1
        /\ \/ HopResults[Len(HopResults)].reached
           \/ Len(HopResults) = max_hops

(***************************************************************************)
(* C2.  A completed run emits exactly one hop result with                  *)
(* reached_destination = true, and it is the last one emitted, if and only *)
(* if some probe with ttl <= max_hops got a Reply of the destination;      *)
(* otherwise no emitted result has reached_destination = true.             *)
(***************************************************************************)
C2_ReachedIffReplied ==
    pc = "done" =>
        /\ DestinationReplied <=>
             /\ Cardinality(ReachedResults) = 1
             /\ Len(HopResults) \in ReachedResults
        /\ ~DestinationReplied => ReachedResults = {}

C2_Witness ==
    /\ pc = "done"
    /\ DestinationReplied
    /\ Len(HopResults) >= 2
    /\ HopResults[Len(HopResults)].reached

(***************************************************************************)
(* C3.  A run that ends because ttl exceeded max_hops, no probe having got *)
(* a Reply of the destination, has emitted exactly max_hops hop results,   *)
(* one per ttl in 1..max_hops, none with reached_destination = true.       *)
(***************************************************************************)
C3_ExhaustedHasMaxHopsResults ==
    (pc = "done" /\ OnlyProbeOutcomes /\ ~DestinationReplied) =>
        /\ Len(HopResults) = max_hops
        /\ \A i \in 1..Len(HopResults) :
               HopResults[i].ttl = i /\ ~HopResults[i].reached

(***************************************************************************)
(* C4.  At a ttl where every attempt so far has timed out, no hop output   *)
(* exists before the attempt with sequence = count - 1; once all count     *)
(* attempts have timed out, exactly one hop result exists for that ttl: it *)
(* was emitted by the attempt with sequence = count - 1 and has no         *)
(* address, no round-trip time and reached_destination = false.            *)
(***************************************************************************)
OutputAt(t) == {j \in 1..Len(out) : IsHopOutput(out[j]) /\ out[j].ttl = t}

AllTimedOutAt(t) ==
    /\ AttemptsAt(t) # {}
    /\ \A i \in AttemptsAt(t) : probes[i].outcome = "Timeout"

C4_AllTimeoutsOneEmptyResult ==
    \A t \in 1..max_hops :
        AllTimedOutAt(t) =>
            IF Cardinality(AttemptsAt(t)) = count
              THEN /\ Cardinality(OutputAt(t)) = 1
                   /\ \A j \in OutputAt(t) :
                        /\ out[j].k = "stars"
                        /\ out[j].source = NoAddr
                        /\ out[j].rtt = NoTime
                        /\ ~out[j].reached
                        /\ probes[out[j].probe].ttl = t
                        /\ probes[out[j].probe].sequence = count - 1
              ELSE OutputAt(t) = {}

C4_Witness ==
    /\ count >= 2
    /\ \E t \in 1..max_hops :
         /\ AllTimedOutAt(t)
         /\ Cardinality(AttemptsAt(t)) = count
         /\ \E j \in OutputAt(t) : out[j].k = "stars"

(***************************************************************************)
(* C5.  After an attempt with sequence k < count - 1 got a HopReply, no    *)
(* probe of that ttl with a sequence in k+1..count-1 is sent: the next     *)
(* probe, if any, has ttl + 1 and sequence 0.                              *)
(***************************************************************************)
C5_HopReplyShortCircuits ==
    \A i \in 1..Len(probes) :
        (probes[i].outcome = "HopReply" /\ probes[i].sequence < count - 1) =>
            /\ \A j \in 1..Len(probes) :
                   j > i => probes[j].ttl # probes[i].ttl
            /\ i < Len(probes) =>
                   /\ probes[i + 1].ttl = probes[i].ttl + 1
                   /\ probes[i + 1].sequence = 0

C5_Witness ==
    \E i \in 1..Len(probes) :
        /\ probes[i].outcome = "HopReply"
        /\ probes[i].sequence < count - 1
        /\ i < Len(probes)

(***************************************************************************)
(* C6.  Once a probe got a Reply of the destination, no further probe is   *)
(* sent, at the same ttl or a later one, and no hop output follows the     *)
(* result with reached_destination = true.                                 *)
(***************************************************************************)
C6_ReplyIsTerminal ==
    \A i \in 1..Len(probes) :
        probes[i].outcome = "Reply" =>
            /\ i = Len(probes)
            /\ pc \notin {"for", "send", "receive"}
            /\ Len(HopOutput) >= 1
            /\ HopOutput[Len(HopOutput)].reached
            /\ HopOutput[Len(HopOutput)].probe = i

C6_Witness ==
    /\ pc = "done"
    /\ ttl <= max_hops
    /\ \E i \in 1..Len(probes) : probes[i].outcome = "Reply"

(***************************************************************************)
(* C7.  An attempt that ends in a Failure (an ICMP error that is not a     *)
(* Time Exceeded message, or an unexpected reply) emits no hop output of   *)
(* any kind, does not abort the run, and is followed by the next attempt   *)
(* of the same ttl.                                                        *)
(***************************************************************************)
IsFailure(o) == o = "Failure"

C7_FailureEmitsNothing ==
    \A i \in 1..Len(probes) :
        IsFailure(probes[i].outcome) =>
            /\ \A j \in 1..Len(out) : out[j].probe # i
            /\ err \in {"none", "KeyboardInterrupt", "OtherException"}
            /\ NextAttemptFollows(i)

(***************************************************************************)
(* C8.  As claimed: a failure of send aborts the run and reaches the       *)
(* caller, no probe is sent and no hop result emitted after it.            *)
(***************************************************************************)
SendFailed(i) == probes[i].outcome \in {"SendError", "SendCrash"}

C8_SendFailureIsFatal ==
    \A i \in 1..Len(probes) :
        SendFailed(i) =>
            /\ i = Len(probes)
            /\ pc = "raised"
            /\ err \in {"ICMPLibError", "OtherException"}
            /\ \A j \in 1..Len(out) : out[j].probe < i

(***************************************************************************)
(* C8, amended.  A failure of send raised as an ICMPLibError is caught by  *)
(* the handler of line 115 and ignored: the attempt emits nothing, the run *)
(* is not aborted by it and goes on with the next attempt.  Only a failure *)
(* raised as an exception outside ICMPLibError aborts the run and reaches  *)
(* the caller; no probe is sent and nothing is emitted after it.           *)
(***************************************************************************)
C8_SendFailureCaughtUnlessForeign ==
    \A i \in 1..Len(probes) :
        /\ probes[i].outcome = "SendError" =>
              /\ \A j \in 1..Len(out) : out[j].probe # i
              /\ pc = "raised" =>
                    \/ err = "KeyboardInterrupt"
                    \/ err = "OtherException" /\ i < Len(probes)
              /\ NextAttemptFollows(i)
        /\ probes[i].outcome = "SendCrash" =>
              /\ i = Len(probes)
              /\ pc = "raised"
              /\ err = "OtherException"
              /\ \A j \in 1..Len(out) : out[j].probe < i /\ out[j].k # "completed"

C8_Witness ==
    \E i \in 1..Len(probes) :
        /\ probes[i].outcome = "SendError"
        /\ i < Len(probes)
        /\ probes[i + 1].outcome = "HopReply"
        /\ pc = "done"

(***************************************************************************)
(* C9.  In every terminal state of the run (completion after the           *)
(* destination was reached, completion after max_hops, a fatal error, a    *)
(* cancellation) a socket that was acquired is closed.                     *)
(***************************************************************************)
C9_SocketClosedOnExit ==
    pc \in {"done", "raised"} => sock \in {"none", "closed"}

(***************************************************************************)
(* C10.  For a hostname that cannot be resolved the run fails with the     *)
(* resolution error before a socket is acquired and before a probe is      *)
(* sent, nothing is emitted, and resolve is called exactly once.           *)
(***************************************************************************)
Unresolvable(a) == is_hostname(a) /\ Len(resolve(a)) = 0

C10_UnresolvableFailsFirst ==
    Unresolvable(address) =>
        /\ resolveCalls <= 1
        /\ sock = "none"
        /\ probes = <<>>
        /\ out = <<>>
        /\ resolveCalls = 1 => (pc = "raised" /\ err = "NameLookupError")

C10_Witness ==
    /\ Unresolvable(address)
    /\ pc = "raised"
    /\ err = "NameLookupError"
    /\ resolveCalls = 1

StepsPerTtl == 3 * count + 3

\* The steps left at the test of the while loop with ttl = t, at most.
StepsFromWhile(t) ==
    IF t > max_hops THEN 2 ELSE (max_hops - t + 1) * StepsPerTtl + 2

Measure ==
    CASE pc = "resolve"   -> StepsFromWhile(1) + 2
      [] pc = "socket"    -> StepsFromWhile(1) + 1
      [] pc = "while"     -> StepsFromWhile(ttl)
      [] pc = "for"       -> (count - nextSeq) * 3 + 2 + StepsFromWhile(ttl + 1)
      [] pc = "send"      -> (count - nextSeq) * 3 + 4 + StepsFromWhile(ttl + 1)
      [] pc = "receive"   -> (count - nextSeq) * 3 + 3 + StepsFromWhile(ttl + 1)
      [] pc = "incr"      -> 1 + StepsFromWhile(ttl + 1)
      [] pc = "completed" -> 1
      [] OTHER            -> 0

C12_RunTerminates ==
    [][/\ Measure' < Measure
       /\ Measure' >= 0
       /\ Len(probes') <= count * max_hops
       /\ (pc = "while" /\ (host_reached \/ ttl > max_hops)) => pc' = "completed"
      ]_vars

C12_Witness ==
    /\ pc = "done"
    /\ count >= 2
    /\ max_hops >= 2
    /\ Len(probes) = count * max_hops

(***************************************************************************)
(* C13.  Probing is sequential: at most one probe is in flight, and only   *)
(* the one handed to send last; the probes handed to send come in strictly *)
(* increasing lexicographic order of (ttl, sequence), the first being      *)
(* (1, 0), each with ttl in 1..max_hops and sequence in 0..count-1.        *)
(***************************************************************************)
LexLess(p, q) ==
    \/ p.ttl < q.ttl
    \/ p.ttl = q.ttl /\ p.sequence < q.sequence

C13_SequentialProbing ==
    /\ \A i \in 1..Len(probes) :
          /\ probes[i].outcome = "InFlight" =>
                /\ i = Len(probes)
                /\ pc \in {"receive", "raised"}
          /\ probes[i].ttl \in 1..max_hops
          /\ probes[i].sequence \in 0..(count - 1)
          /\ i < Len(probes) => LexLess(probes[i], probes[i + 1])
    /\ pc = "receive" =>
          (Len(probes) >= 1 /\ probes[Len(probes)].outcome = "InFlight")
    /\ Len(probes) >= 1 => (probes[1].ttl = 1 /\ probes[1].sequence = 0)

C13_Witness ==
    /\ pc = "receive"
    /\ Len(probes) >= 3
    /\ probes[Len(probes)].ttl = 2
    /\ probes[Len(probes)].outcome = "InFlight"
    /\ probes[1].outcome = "Timeout"

(***************************************************************************)
(* C14.  A Timeout of an attempt with sequence < count - 1 emits nothing   *)
(* and is followed by the probe of the same ttl with sequence + 1; the     *)
(* no-response line is emitted only by the attempt with sequence =         *)
(* count - 1.                                                              *)
(***************************************************************************)
\* The run stands between attempt i, the last so far, and the attempt
\* (t, s): in the for loop about to take s, or about to send (t, s), or
\* interrupted there.
HeadingFor(t, s) ==
    \/ pc = "for" /\ ttl = t /\ nextSeq = s
    \/ /\ pc = "send" \/ (pc = "raised" /\ err = "KeyboardInterrupt")
       /\ request.ttl = t
       /\ request.sequence = s
       /\ request.time = NoTime

C14_TimeoutRetriesSameTtl ==
    /\ \A i \in 1..Len(probes) :
          (probes[i].outcome = "Timeout" /\ probes[i].sequence < count - 1) =>
              /\ \A j \in 1..Len(out) : out[j].probe # i
              /\ IF i < Len(probes)
                   THEN /\ probes[i + 1].ttl = probes[i].ttl
                        /\ probes[i + 1].sequence = probes[i].sequence + 1
                   ELSE HeadingFor(probes[i].ttl, probes[i].sequence + 1)
    /\ \A j \in 1..Len(out) :
          out[j].k = "stars" =>
              /\ probes[out[j].probe].sequence = count - 1
              /\ probes[out[j].probe].outcome = "Timeout"

C14_Witness ==
    \E i \in 1..Len(probes) :
        /\ probes[i].outcome = "Timeout"
        /\ probes[i].sequence < count - 1
        /\ i < Len(probes)
        /\ probes[i + 1].outcome = "Timeout"
        /\ \E j \in 1..Len(out) : out[j].k = "stars" /\ out[j].probe = i + 1

(***************************************************************************)
(* C15.  A ttl < max_hops that ends HopResolved (a HopReply) or            *)
(* Unresponsive (the attempt with sequence = count - 1 made without a      *)
(* reply) ends that ttl only: the run goes on, and the next probe is       *)
(* (ttl + 1, 0).                                                           *)
(***************************************************************************)
EndsTtl(i) ==
    \/ probes[i].outcome = "HopReply"
    \/ /\ probes[i].sequence = count - 1
       /\ probes[i].outcome \in {"Timeout", "Failure", "SendError"}

C15_TtlEndIsLocal ==
    \A i \in 1..Len(probes) :
        (EndsTtl(i) /\ probes[i].ttl < max_hops) =>
            IF i < Len(probes)
              THEN /\ probes[i + 1].ttl = probes[i].ttl + 1
                   /\ probes[i + 1].sequence = 0
              ELSE \/ pc = "for" /\ ttl = probes[i].ttl
                   \/ pc = "incr" /\ ttl = probes[i].ttl
                   \/ pc = "while" /\ ttl = probes[i].ttl + 1 /\ ~host_reached
                   \/ HeadingFor(probes[i].ttl + 1, 0)

C15_Witness ==
    \E i \in 1..Len(probes) :
        /\ i + 1 < Len(probes)
        /\ probes[i].outcome = "Timeout"
        /\ probes[i + 1].outcome = "Timeout"
        /\ probes[i + 1].sequence = count - 1
        /\ probes[i + 2].ttl = probes[i].ttl + 1
        /\ probes[i + 2].sequence = 0
        /\ probes[i + 2].outcome = "HopReply"

(***************************************************************************)
(* C16.  No interval wait lies between two attempts of the same ttl: after *)
(* a call of sleep(interval) made in an attempt of some ttl, no further    *)
(* probe of that ttl is sent.                                              *)
(***************************************************************************)
SleepsIn(i) == {k \in 1..Len(sleeps) : sleeps[k].after = i}

C16_NoSleepWithinTtl ==
    \A i \in 1..Len(probes) :
        (i < Len(probes) /\ probes[i + 1].ttl = probes[i].ttl) =>
            SleepsIn(i) = {}

C16_Witness ==
    /\ Len(sleeps) >= 1
    /\ \E i \in 1..Len(probes) :
         /\ i + 1 < Len(probes)
         /\ probes[i + 1].ttl = probes[i].ttl
         /\ probes[i + 1].outcome = "HopReply"
         /\ SleepsIn(i + 1) # {}

(***************************************************************************)
(* C17.  As claimed: whenever a ttl is finalized and the run moves on to   *)
(* the next ttl, be it after a HopReply or after all attempts were made    *)
(* without a response, sleep(interval) is called exactly once before the   *)
(* first probe of the next ttl.                                            *)
(***************************************************************************)
MovesOn(i) == i < Len(probes) /\ probes[i + 1].ttl = probes[i].ttl + 1

C17_SleepBeforeEveryNextTtl ==
    \A i \in 1..Len(probes) :
        (MovesOn(i) /\ probes[i].outcome \in {"HopReply", "Timeout"}) =>
            Cardinality(SleepsIn(i)) = 1

(***************************************************************************)
(* C17, amended.  When a ttl is finalized by a HopReply and the run moves  *)
(* on to the next ttl, sleep(interval) is called exactly once before the   *)
(* first probe of the next ttl; when the ttl is finalized by its last      *)
(* attempt having got no response, sleep(interval) is not called.  Stated  *)
(* for every attempt, the last of a ttl included: sleep(interval) is       *)
(* called once in an attempt that got a HopReply and in no other.          *)
(***************************************************************************)
C17_SleepAfterHopReplyOnly ==
    /\ \A i \in 1..Len(probes) :
          Cardinality(SleepsIn(i)) =
              IF probes[i].outcome = "HopReply" THEN 1 ELSE 0
    /\ \A k \in 1..Len(sleeps) :
          /\ sleeps[k].after \in 1..Len(probes)
          /\ sleeps[k].ttl = probes[sleeps[k].after].ttl

C17_Witness ==
    \E i \in 1..Len(probes) :
        /\ probes[i].outcome = "HopReply"
        /\ probes[i].sequence = 1
        /\ MovesOn(i)
        /\ Cardinality(SleepsIn(i)) = 1
        /\ SleepsIn(i - 1) = {}

(***************************************************************************)
(* C18.  All probes of a run carry the same identifier and the resolved    *)
(* destination, and no two of them have the same (identifier, sequence,    *)
(* ttl).                                                                   *)
(***************************************************************************)
Tag(p) == <<p.id, p.sequence, p.ttl>>

\* As many different tags as probes: no two probes have the same tag.
C18_ProbeTagsUnique ==
    /\ \A i \in 1..Len(probes) :
          /\ probes[i].id = probes[1].id
          /\ probes[i].destination = ip_address
    /\ Cardinality({Tag(probes[i]) : i \in 1..Len(probes)}) = Len(probes)

C18_Witness ==
    /\ Len(probes) >= 3
    /\ probes[1].ttl = probes[2].ttl
    /\ probes[3].ttl # probes[1].ttl
    /\ probes[3].sequence = probes[1].sequence
    /\ address # ip_address

(***************************************************************************)
(* C19.  The no-response line of a ttl is printed exactly by the attempt   *)
(* with sequence = count - 1 when it times out, whatever the earlier       *)
(* attempts of that ttl did; and when the attempt with sequence =          *)
(* count - 1 ends in a Failure, the ttl is passed with neither a           *)
(* no-response line nor a complete hop line.                               *)
(***************************************************************************)
StarsOf(i) == {j \in 1..Len(out) : out[j].k = "stars" /\ out[j].probe = i}

NoResultAt(t) == \A j \in 1..Len(out) : IsHopResult(out[j]) => out[j].ttl # t

LastTimedOut(i) ==
    probes[i].outcome = "Timeout" /\ probes[i].sequence = count - 1

GotReply(i) == probes[i].outcome \in {"Reply", "HopReply", "Failure"}

Completes(i) == probes[i].outcome \in {"Reply", "HopReply"}

\* The places in out of the prints of one statement, and the attempts
\* that made them.
Places(kind) == {j \in 1..Len(out) : out[j].k = kind}

PrintersOf(kind) == {out[j].probe : j \in Places(kind)}

C20_PrefixBeforeStatus ==
    \* a prefix by every attempt that got a reply and by no other, one each
    /\ PrintersOf("prefix") = {i \in 1..Len(probes) : GotReply(i)}
    /\ Cardinality(PrintersOf("prefix")) = Cardinality(Places("prefix"))
    \* a round-trip time by every Reply and HopReply and by no other, one each
    /\ PrintersOf("rtt") = {i \in 1..Len(probes) : Completes(i)}
    /\ Cardinality(PrintersOf("rtt")) = Cardinality(Places("rtt"))
    \* the round-trip time comes right after the prefix; a prefix without one
    \* is the last print of its attempt
    /\ \A j \in Places("prefix") :
          LET i == out[j].probe IN
          /\ out[j].ttl = probes[i].ttl
          /\ IF Completes(i)
               THEN /\ j < Len(out)
                    /\ out[j + 1].k = "rtt"
                    /\ out[j + 1].probe = i
               ELSE j < Len(out) => out[j + 1].probe # i

\* A prefix left by an ignored ICMP error, followed in the output by the
\* prefix of the next attempt.
C20_Witness ==
    \E j \in 1..Len(out) :
        /\ j < Len(out)
        /\ out[j].k = "prefix"
        /\ probes[out[j].probe].outcome = "Failure"
        /\ out[j + 1].k = "prefix"
        /\ out[j + 1].probe = out[j].probe + 1

====
